---- MODULE Spec2Model ----
(***************************************************************************)
(* A model of the two PTY session hosts of the workspace:                  *)
(*   remote-shell  (src/remote-shell/src/api.rs, handle_socket): a PTY     *)
(*       reader thread that relays raw bytes over one bounded queue and    *)
(*       log events, extracted with regular expressions, over another; a   *)
(*       forwarding task that multiplexes both onto a websocket; and the   *)
(*       inbound-message loop.                                             *)
(*   pty-bash-hook (src/pty-bash-hook/src/main.rs): a read loop that       *)
(*       copies raw bytes to stdout, appends them to the running command's *)
(*       capture buffer and feeds them to a vte parser whose osc_dispatch  *)
(*       writes the command log.                                           *)
(* Bytes are naturals 0..255; a Rust String is the sequence of its UTF-8   *)
(* bytes.                                                                  *)
(***************************************************************************)
EXTENDS Integers, Sequences, FiniteSets, TLC

\* ------------------------------------------------------------------ bytes
ESC == 27
BEL == 7
LBRACKET == 91
RBRACKET == 93
SEMI == 59

IsDigit(b) == b >= 48 /\ b <= 57
IsAlpha(b) == (b >= 65 /\ b <= 90) \/ (b >= 97 /\ b <= 122)
\* the class [0-9;?] of ansi_re
IsCsiParam(b) == IsDigit(b) \/ b = SEMI \/ b = 63
\* a UTF-8 continuation byte 10xxxxxx
IsCont(b) == b >= 128 /\ b <= 191

Min(a, b) == IF a < b THEN a ELSE b

\* s[from..to) in Rust's 0-based half-open indexing
Slice(s, from, to) == SubSeq(s, from + 1, to)
SliceFrom(s, from) == SubSeq(s, from + 1, Len(s))

RECURSIVE Flatten(_)
Flatten(ss) == IF ss = <<>> THEN <<>> ELSE Head(ss) \o Flatten(Tail(ss))

\* whether the literal lit occurs in s at 0-based offset i
MatchesAt(s, i, lit) ==
    /\ i + Len(lit) <= Len(s)
    /\ \A k \in 1..Len(lit) : s[i + k] = lit[k]

\* str::is_char_boundary: 0, len, or a byte that is not a continuation byte
IsCharBoundary(s, i) ==
    \/ i = 0
    \/ i = Len(s)
    \/ (i < Len(s) /\ ~IsCont(s[i + 1]))

\* U+FFFD REPLACEMENT CHARACTER in UTF-8
Replacement == <<239, 191, 189>>

\* Length (1..4) of the well-formed UTF-8 sequence that starts at 0-based
\* offset i of s, or minus the length of the maximal ill-formed prefix that
\* String::from_utf8_lossy replaces by one U+FFFD.
Utf8Step(s, i) ==
    LET b0 == s[i + 1]
        has(k) == i + k + 1 <= Len(s)
        at(k) == s[i + k + 1]
        lo2 == IF b0 = 224 THEN 160 ELSE IF b0 = 240 THEN 144 ELSE 128
        hi2 == IF b0 = 237 THEN 159 ELSE IF b0 = 244 THEN 143 ELSE 191
        ok2 == has(1) /\ at(1) >= lo2 /\ at(1) <= hi2
    IN  IF b0 < 128 THEN 1
        ELSE IF b0 >= 194 /\ b0 <= 223
             THEN (IF has(1) /\ IsCont(at(1)) THEN 2 ELSE -1)
        ELSE IF b0 >= 224 /\ b0 <= 239
             THEN (IF ~ok2 THEN -1
                   ELSE IF has(2) /\ IsCont(at(2)) THEN 3 ELSE -2)
        ELSE IF b0 >= 240 /\ b0 <= 244
             THEN (IF ~ok2 THEN -1
                   ELSE IF ~(has(2) /\ IsCont(at(2))) THEN -2
                   ELSE IF has(3) /\ IsCont(at(3)) THEN 4 ELSE -3)
        ELSE -1

\* Position of the least element of a set of offsets, or -1
MinOr(S) == IF S = {} THEN -1 ELSE CHOOSE i \in S : \A j \in S : i <= j

RECURSIVE Utf8LossyFrom(_, _)
Utf8LossyFrom(s, i) ==
    IF i >= Len(s) THEN <<>>
    ELSE LET w == Utf8Step(s, i)
         IN  IF w > 0 THEN Slice(s, i, i + w) \o Utf8LossyFrom(s, i + w)
             ELSE Replacement \o Utf8LossyFrom(s, i - w)

\* String::from_utf8_lossy(&data). An ASCII byte is a character by itself and
\* is part of no ill-formed sequence, so the bytes before and after it are
\* converted independently: the conversion is evaluated run by run.
RECURSIVE Utf8Lossy(_)
Utf8Lossy(data) ==
    IF \A k \in 1..Len(data) : data[k] < 128 THEN data
    ELSE LET mid == (Len(data) + 1) \div 2
             asc == {k \in 1..Len(data) : data[k] < 128}
             k == IF asc = {} THEN 0
                  ELSE CHOOSE a \in asc :
                         \A b \in asc : (IF a > mid THEN a - mid ELSE mid - a)
                                        <= (IF b > mid THEN b - mid ELSE mid - b)
         IN  IF k = 0 THEN Utf8LossyFrom(data, 0)
             ELSE Utf8Lossy(SubSeq(data, 1, k - 1)) \o <<data[k]>>
                  \o Utf8Lossy(SubSeq(data, k + 1, Len(data)))

\* --------------------------------------------- remote-shell: the regexes
\* "\x1b]"
OscIntro == <<27, 93>>
\* "\x1b]6973;START\x07"
StartLit == <<27, 93, 54, 57, 55, 51, 59, 83, 84, 65, 82, 84, 7>>
\* "\x1b]6973;END;" : the literal prefix of end_re, before (\d+)\x07
EndPrefix == <<27, 93, 54, 57, 55, 51, 59, 69, 78, 68, 59>>

\* start_re.find(&parsing_str): offset of the leftmost match, or -1
FindStart(s) == MinOr({i \in 0..(Len(s) - Len(StartLit)) : MatchesAt(s, i, StartLit)})

\* number of consecutive bytes from 0-based offset i on that satisfy a class
RECURSIVE DigitRun(_, _)
DigitRun(s, i) == IF i < Len(s) /\ IsDigit(s[i + 1]) THEN 1 + DigitRun(s, i + 1) ELSE 0

RECURSIVE CsiParamRun(_, _)
CsiParamRun(s, i) ==
    IF i < Len(s) /\ IsCsiParam(s[i + 1]) THEN 1 + CsiParamRun(s, i + 1) ELSE 0

\* whether end_re matches at offset i: prefix, one or more digits, BEL
EndMatchesAt(s, i) ==
    /\ MatchesAt(s, i, EndPrefix)
    /\ LET d == i + Len(EndPrefix)
           n == DigitRun(s, d)
       IN  n >= 1 /\ d + n < Len(s) /\ s[d + n + 1] = BEL

\* end_re.find(&parsing_str): offset of the leftmost match, or -1
FindEnd(s) == MinOr({i \in 0..(Len(s) - Len(EndPrefix)) : EndMatchesAt(s, i)})

\* captures.get(1): the digits of the match at offset i
EndDigits(s, i) ==
    LET d == i + Len(EndPrefix) IN Slice(s, d, d + DigitRun(s, d))

\* mat.end() of the end_re match at offset i
EndMatchEnd(s, i) ==
    LET d == i + Len(EndPrefix) IN d + DigitRun(s, d) + 1

\* exit_code_str.parse::<i32>().unwrap_or(0) on a run of ASCII digits:
\* the value, or 0 when it does not fit an i32 (2147483647)

RECURSIVE DecValue(_, _)
DecValue(ds, acc) ==
    IF ds = <<>> THEN acc
    ELSE LET d == Head(ds) - 48
         IN  IF acc > 214748364 \/ (acc = 214748364 /\ d > 7) THEN -1
             ELSE DecValue(Tail(ds), acc * 10 + d)

ParseI32(ds) == LET v == DecValue(ds, 0) IN IF v < 0 THEN 0 ELSE v

\* Length of the ansi_re match that starts at offset i, 0 when none:
\*   (\x1b\[[0-9;?]*[a-zA-Z]) | (\x1b][^\x07]*\x07)
AnsiMatchLen(s, i) ==
    IF ~(i + 1 < Len(s) /\ s[i + 1] = ESC) THEN 0
    ELSE IF s[i + 2] = LBRACKET
         THEN LET n == CsiParamRun(s, i + 2)
              IN  IF i + 2 + n < Len(s) /\ IsAlpha(s[i + 2 + n + 1])
                  THEN 2 + n + 1 ELSE 0
    ELSE IF s[i + 2] = RBRACKET
         THEN LET j == MinOr({k \in (i + 2)..(Len(s) - 1) : s[k + 1] = BEL})
              IN  IF j < 0 THEN 0 ELSE j + 1 - i
    ELSE 0

\* ansi_re.replace_all(content_raw, ""): the matches are found left to
\* right, each search resuming where the previous match ended; a match
\* starts at an ESC, so the text up to the next ESC is copied as it is.
RECURSIVE StripAnsi(_)
StripAnsi(s) ==
    LET e == MinOr({k \in 0..(Len(s) - 1) : s[k + 1] = ESC})
    IN  IF e < 0 THEN s
        ELSE LET n == AnsiMatchLen(s, e)
             IN  IF n > 0 THEN Slice(s, 0, e) \o StripAnsi(SliceFrom(s, e + n))
                 ELSE Slice(s, 0, e + 1) \o StripAnsi(SliceFrom(s, e + 1))

\* ------------------------------------------ remote-shell: log extraction
\* ServerLogMsg::LogOutput { data } and ServerLogMsg::LogEnd { exit_code }
LogOutput(data) == [type |-> "logOutput", data |-> data, exitCode |-> 0]
LogEnd(code) == [type |-> "logEnd", data |-> <<>>, exitCode |-> code]

FlushAlways(content_raw) == <<LogOutput(StripAnsi(content_raw))>>

\* if !clean_content.is_empty() { tx_log.blocking_send(LogOutput{..}) }
FlushOutput(content_raw) ==
    LET clean_content == StripAnsi(content_raw)
    IN  IF clean_content # <<>> THEN <<LogOutput(clean_content)>> ELSE <<>>

EndMessagesSwapped(content_raw, exit_code) ==
    <<LogEnd(exit_code)>> \o FlushOutput(content_raw)

\* END found: the accumulated content is sent, then LogEnd
EndMessages(content_raw, exit_code) ==
    FlushOutput(content_raw) \o <<LogEnd(exit_code)>>

\* bytes kept while idle, and bytes held back while capturing
TailKeep == 20
Reserve == 30

\* The inner `loop` of the reader thread, run on the parse buffer after a
\* chunk was appended. Result: the parse buffer and capture flag it leaves,
\* the log messages it sends, in order, and whether a str slice at a byte
\* offset that is no char boundary panicked the thread.
RECURSIVE ParseLoop(_, _)
ParseLoop(ps, capturing) ==
    IF ~capturing
    THEN LET m == FindStart(ps)
         IN  IF m >= 0
             THEN ParseLoop(SliceFrom(ps, m + Len(StartLit)), TRUE)
             ELSE IF Len(ps) > TailKeep
                  THEN IF IsCharBoundary(ps, Len(ps) - TailKeep)
                       THEN [ps |-> SliceFrom(ps, Len(ps) - TailKeep),
                             capturing |-> FALSE, evs |-> <<>>, panic |-> FALSE]
                       ELSE [ps |-> ps, capturing |-> FALSE, evs |-> <<>>,
                             panic |-> TRUE]
                  ELSE [ps |-> ps, capturing |-> FALSE, evs |-> <<>>,
                        panic |-> FALSE]
    ELSE LET m == FindEnd(ps)
         IN  IF m >= 0
             THEN LET exit_code == ParseI32(EndDigits(ps, m))
                      sent == EndMessages(Slice(ps, 0, m), exit_code)
                      r == ParseLoop(SliceFrom(ps, EndMatchEnd(ps, m)), FALSE)
                  IN  [r EXCEPT !.evs = sent \o r.evs]
             ELSE IF Len(ps) > Reserve
                  THEN LET split_idx == Len(ps) - Reserve
                       IN  IF IsCharBoundary(ps, split_idx)
                           THEN [ps |-> SliceFrom(ps, split_idx), capturing |-> TRUE,
                                 evs |-> FlushOutput(Slice(ps, 0, split_idx)),
                                 panic |-> FALSE]
                           ELSE [ps |-> ps, capturing |-> TRUE, evs |-> <<>>,
                                 panic |-> TRUE]
                  ELSE [ps |-> ps, capturing |-> TRUE, evs |-> <<>>, panic |-> FALSE]


\* ------------------------------------------- pty-bash-hook: vte + logging
\* b"666", "CMD_START", "CMD_END", "PWD", "unknown"
Chan666 == <<54, 54, 54>>
CmdStartLit == <<67, 77, 68, 95, 83, 84, 65, 82, 84>>
CmdEndLit == <<67, 77, 68, 95, 69, 78, 68>>
PwdLit == <<80, 87, 68>>
UnknownLit == <<117, 110, 107, 110, 111, 119, 110>>

\* The OSC string cut at its semicolons: the params vte hands to osc_dispatch
\* (vte keeps at most 16 params; the markers of this program carry at most 3).
RECURSIVE SplitParams(_)
SplitParams(raw) ==
    LET j == MinOr({k \in 1..Len(raw) : raw[k] = SEMI})
    IN  IF j < 0 THEN <<raw>>
        ELSE <<SubSeq(raw, 1, j - 1)>> \o SplitParams(SubSeq(raw, j + 1, Len(raw)))

\* vte::Parser::advance on one byte, for the states this program's callbacks
\* can observe: ground, escape, csi and the OSC string. Leaving the OSC
\* string (BEL, ESC, CAN, SUB) dispatches it. Result: the parser's next state
\* and OSC buffer, and the params dispatched, if any.
VteAdvance(ps, b) ==
    LET stay == [state |-> ps.state, osc_raw |-> ps.osc_raw, dispatch |-> FALSE]
        goto(st) == [state |-> st, osc_raw |-> <<>>, dispatch |-> FALSE]
        leave(st) == [state |-> st, osc_raw |-> <<>>, dispatch |-> ps.state = "osc"]
    IN  IF b = 24 \/ b = 26 THEN leave("ground")
        ELSE IF b = ESC THEN leave("escape")
        ELSE IF ps.state = "ground" THEN stay
        ELSE IF ps.state = "escape"
             THEN IF b = LBRACKET THEN goto("csi")
                  ELSE IF b = RBRACKET THEN goto("osc")
                  ELSE IF b >= 48 /\ b <= 126 THEN goto("ground")
                  ELSE stay
        ELSE IF ps.state = "csi"
             THEN IF b >= 64 /\ b <= 126 THEN goto("ground") ELSE stay
        ELSE \* "osc"
             IF b = BEL THEN leave("ground")
             ELSE IF b >= 32
                  THEN [state |-> "osc", osc_raw |-> Append(ps.osc_raw, b),
                        dispatch |-> FALSE]
                  ELSE stay

\* Option<CommandSession>: None, and Some(CommandSession { command, output })
NoSession == [live |-> FALSE, command |-> <<>>, output |-> <<>>]
NewSession(command) == [live |-> TRUE, command |-> command, output |-> <<>>]

\* the blocks osc_dispatch writes to the log file (time stamps left out)
LogStarted(command) == [k |-> "started", text |-> command]
LogOutputSection(text) == [k |-> "output", text |-> text]
LogEnded(exit_code) == [k |-> "ended", text |-> exit_code]
LogPwd(pwd) == [k |-> "pwd", text |-> pwd]

\* LogInterpreter::capture_output
CaptureOutput(session, data) ==
    IF session.live THEN [session EXCEPT !.output = session.output \o data]
    ELSE session

\* LogInterpreter::osc_dispatch on it == [session, log]
OscDispatch(it, params) ==
    IF Len(params) = 0 \/ params[1] # Chan666 \/ Len(params) < 2 THEN it
    ELSE LET type_str == Utf8Lossy(params[2])
         IN  IF type_str = CmdStartLit
             THEN IF Len(params) >= 3
                  THEN LET command == Utf8Lossy(params[3])
                       IN  [session |-> NewSession(command),
                            log |-> Append(it.log, LogStarted(command))]
                  ELSE it
             ELSE IF type_str = CmdEndLit
             THEN IF it.session.live
                  THEN LET exit_code == IF Len(params) >= 3 THEN Utf8Lossy(params[3])
                                        ELSE UnknownLit
                       IN  [session |-> NoSession,
                            log |-> it.log \o
                                    <<LogOutputSection(Utf8Lossy(it.session.output)),
                                      LogEnded(exit_code)>>]
                  ELSE it
             ELSE IF type_str = PwdLit
             THEN IF Len(params) >= 3
                  THEN [it EXCEPT !.log = Append(it.log, LogPwd(Utf8Lossy(params[3])))]
                  ELSE it
             ELSE it

\* parser.advance(&mut interpreter, byte) on st == [parser, session, log]
AdvanceByte(st, b) ==
    LET a == VteAdvance(st.parser, b)
        it == IF a.dispatch
              THEN OscDispatch([session |-> st.session, log |-> st.log],
                               SplitParams(st.parser.osc_raw))
              ELSE [session |-> st.session, log |-> st.log]
    IN  [parser |-> [state |-> a.state, osc_raw |-> a.osc_raw],
         session |-> it.session, log |-> it.log]

\* for byte in data { parser.advance(&mut interpreter, *byte) }, over the
\* bytes data[lo..hi] in order, evaluated by halves (the test on left only
\* makes the left half be evaluated before the right one starts)
RECURSIVE AdvanceAll(_, _, _, _)
AdvanceAll(st, data, lo, hi) ==
    IF lo > hi THEN st
    ELSE IF lo = hi THEN AdvanceByte(st, data[lo])
    ELSE LET mid == (lo + hi) \div 2
             left == AdvanceAll(st, data, lo, mid)
         IN  IF left.parser.state = "" THEN left
             ELSE AdvanceAll(left, data, mid + 1, hi)

\* the body of main's read loop after stdout was written:
\* capture_output(data), then the parser over every byte of data
LocalChunk(st, data) ==
    AdvanceAll([st EXCEPT !.session = CaptureOutput(st.session, data)], data, 1, Len(data))


\* ------------------------------------------------------ the PTY's output
\* What the shell writes to the PTY is a sequence of segments: plain text,
\* and the markers of the shell-integration script, with their parameters
\* after the keyword. Each program is fed its own channel id and keywords.
Variants == {"remote", "local"}

Txt(bytes) == [k |-> "txt", ps |-> <<bytes>>]
Start(ps) == [k |-> "start", ps |-> ps]
End(ps) == [k |-> "end", ps |-> ps]
\* a PWD marker, a marker of the private channel with an unknown keyword, and
\* an OSC sequence of another channel (0: the window title)
Pwd(ps) == [k |-> "pwd", ps |-> ps]
Unknown(ps) == [k |-> "unknown", ps |-> ps]
Other(ps) == [k |-> "other", ps |-> ps]

RECURSIVE JoinSemi(_)
JoinSemi(parts) ==
    IF Len(parts) = 0 THEN <<>>
    ELSE IF Len(parts) = 1 THEN parts[1]
    ELSE parts[1] \o <<SEMI>> \o JoinSemi(Tail(parts))

\* ESC ] p1 ; p2 ; ... BEL
Osc(parts) == <<ESC, RBRACKET>> \o JoinSemi(parts) \o <<BEL>>

Chan(v) == IF v = "remote" THEN <<54, 57, 55, 51>> ELSE Chan666
KwStart(v) == IF v = "remote" THEN <<83, 84, 65, 82, 84>> ELSE CmdStartLit
KwEnd(v) == IF v = "remote" THEN <<69, 78, 68>> ELSE CmdEndLit

FooLit == <<70, 79, 79>>
TitleChan == <<48>>

Render(v, seg) ==
    IF seg.k = "txt" THEN seg.ps[1]
    ELSE IF seg.k = "start" THEN Osc(<<Chan(v), KwStart(v)>> \o seg.ps)
    ELSE IF seg.k = "end" THEN Osc(<<Chan(v), KwEnd(v)>> \o seg.ps)
    ELSE IF seg.k = "pwd" THEN Osc(<<Chan(v), PwdLit>> \o seg.ps)
    ELSE IF seg.k = "unknown" THEN Osc(<<Chan(v), FooLit>> \o seg.ps)
    ELSE Osc(<<TitleChan>> \o seg.ps)

RECURSIVE RenderAll(_, _)
RenderAll(v, segs) ==
    IF segs = <<>> THEN <<>> ELSE Render(v, Head(segs)) \o RenderAll(v, Tail(segs))

\* texts
Ls == <<108, 115>>
Files == <<102, 105, 108, 101, 49, 10, 102, 105, 108, 101, 50, 10>>
Zero == <<48>>
One == <<49>>
Code137 == <<49, 51, 55>>
Abc == <<97, 98, 99>>
TxtA == <<97>>
TxtB == <<98>>
\* ESC [ 3 1 m
CsiRed == <<27, 91, 51, 49, 109>>
\* twenty letters
Letters == <<97, 98, 99, 100, 101, 102, 103, 104, 105, 106,
             107, 108, 109, 110, 111, 112, 113, 114, 115, 116>>
\* U+00E9 in UTF-8
EAcute == <<195, 169>>
\* a CR LF TAB b
CrLfText == <<97, 13, 10, 9, 98>>
Slash == <<47>>
\* fifty letters: more one-byte reads than a queue holds messages
FloodText == Letters \o Letters \o SubSeq(Letters, 1, 10)

Scenarios ==
    [ e2e       |-> <<Start(<<Ls>>), Txt(Files), End(<<Zero>>)>>,
      plain     |-> <<Start(<<>>), Txt(TxtA), End(<<Zero>>)>>,
      code137   |-> <<Start(<<>>), Txt(TxtA), End(<<Code137>>)>>,
      nocode    |-> <<Start(<<>>), Txt(TxtA), End(<<>>)>>,
      abc       |-> <<Start(<<>>), Txt(TxtA), End(<<Abc>>)>>,
      cmd137    |-> <<Start(<<Ls>>), Txt(TxtA), End(<<Code137>>)>>,
      cmdnocode |-> <<Start(<<Ls>>), Txt(TxtA), End(<<>>)>>,
      cmdabc    |-> <<Start(<<Ls>>), Txt(TxtA), End(<<Abc>>)>>,
      stray     |-> <<Txt(TxtA), End(<<One>>), Start(<<>>), Txt(TxtA), End(<<Zero>>)>>,
      cmdstray  |-> <<Txt(TxtA), End(<<One>>), Start(<<Ls>>), Txt(TxtA), End(<<Zero>>)>>,
      straymb   |-> <<Txt(EAcute \o SubSeq(Letters, 1, 6)), End(<<One>>), Start(<<>>),
                      Txt(TxtA), End(<<Zero>>)>>,
      double    |-> <<Start(<<>>), Txt(TxtA), Start(<<>>), Txt(TxtB), End(<<Zero>>)>>,
      cmddouble |-> <<Start(<<Ls>>), Txt(TxtA), Start(<<Ls>>), Txt(TxtB), End(<<Zero>>)>>,
      colour    |-> <<Start(<<>>), Txt(CsiRed \o Letters), End(<<Zero>>)>>,
      pre       |-> <<Txt(Letters \o TxtA \o TxtB), Start(<<>>), Txt(TxtA), End(<<Zero>>)>>,
      long      |-> <<Start(<<>>), Txt(Letters \o SubSeq(Letters, 1, 12)), End(<<Zero>>)>>,
      mbcap     |-> <<Start(<<>>), Txt(EAcute \o Letters \o SubSeq(Letters, 1, 10)),
                      End(<<Zero>>)>>,
      invalid   |-> <<Start(<<>>), Txt(<<255, 97>>), End(<<Zero>>)>>,
      crlf      |-> <<Start(<<>>), Txt(CrLfText), End(<<Zero>>)>>,
      cmdlong   |-> <<Start(<<Ls>>), Txt(Letters \o SubSeq(Letters, 1, 12)), End(<<Zero>>)>>,
      noise     |-> <<Pwd(<<Slash>>), Start(<<>>), Other(<<>>), Unknown(<<>>),
                      Txt(CsiRed \o TxtA), End(<<Zero>>)>>,
      cmdnoise  |-> <<Pwd(<<Slash>>), Start(<<Ls>>), Other(<<>>), Unknown(<<>>),
                      Txt(CsiRed \o TxtA), End(<<Zero>>)>>,
      empty     |-> <<Start(<<>>), End(<<Zero>>)>>,
      onlycsi   |-> <<Start(<<>>), Txt(CsiRed), End(<<Zero>>)>>,
      quiet     |-> <<Txt(TxtA)>>,
      flood     |-> <<Start(<<>>), Txt(FloodText), End(<<Zero>>)>> ]

ScenarioIds == DOMAIN Scenarios

\* the scenarios read in chunks of every size; "quiet" is the session of the
\* inbound messages and "flood" the one read a byte at a time
ChunkedScenarios == ScenarioIds \ {"quiet", "flood"}

\* the bytes each program is fed in each scenario
StreamTable == [v \in Variants |-> [s \in ScenarioIds |-> RenderAll(v, Scenarios[s])]]

\* how many bytes the first i segments of a scenario take
SegEnd ==
    [v \in Variants |-> [s \in ScenarioIds |-> [i \in 0..Len(Scenarios[s]) |->
        Len(RenderAll(v, SubSeq(Scenarios[s], 1, i)))]]]


\* ------------------------------------------------------------------ state
VARIABLES
    variant,        \* which program runs: "remote" or "local"
    scn,            \* what the shell writes (a key of Scenarios)
    env,            \* what surrounds the session: [grain, prompt, msgs]
    pos,            \* bytes the PTY reads have returned so far
    ptyIn,          \* bytes written to the PTY
    \* remote-shell, reader thread
    rpc,            \* "read" | "send" | "exited" | "panicked"
    parsing_str,
    is_capturing,
    logEmit,        \* log messages the reader emitted, Output runs merged
    pend,           \* what the reader, blocked in blocking_send, has yet to send
    \* remote-shell, channels and tasks
    rawQ,           \* tx_output -> rx_output
    logQ,           \* tx_log -> rx_log
    rxOpen,         \* the receivers are alive (send_task owns them)
    spc,            \* send_task: "run" | "done" | "aborted"
    hpc,            \* inbound loop: "loop" | "returned"
    connOpen,       \* the websocket is open
    wsBin,          \* bytes sent in binary frames
    wsText,         \* log messages sent in text frames, Output runs merged
    is_zsh,
    recvd,          \* the frames the inbound loop has taken, in order
    pty_size,       \* [cols, rows]
    \* pty-bash-hook
    lpc,            \* "read" | "ended" | "panicked"
    parser,         \* vte::Parser: [state, osc_raw]
    current_session,
    log_file,
    stdout,
    raw_mode,
    use_winpty,
    ptyLock         \* WinPTY's Mutex<PTY>: "free" | "reader" | "poisoned"

vars == <<variant, scn, env, pos, ptyIn, rpc, parsing_str, is_capturing, logEmit, pend,
          rawQ, logQ, rxOpen, spc, hpc, connOpen, wsBin, wsText, is_zsh, recvd, pty_size,
          lpc, parser, current_session, log_file, stdout, raw_mode, use_winpty, ptyLock>>

remoteVars == <<rpc, parsing_str, is_capturing, logEmit, pend, rawQ, logQ, rxOpen, spc, hpc,
                connOpen, wsBin, wsText, is_zsh, recvd, pty_size>>
localVars == <<lpc, parser, current_session, log_file, stdout, raw_mode, use_winpty,
               ptyLock>>
\* the state of the inbound side of remote-shell
inboundVars == <<ptyIn, is_zsh, recvd, pty_size>>

\* mpsc::channel(32)
QueueCap == 32
\* let mut buf = [0u8; 1024] (remote) and [0u8; 4096] (local)
RemoteBuf == 1024
LocalBuf == 4096
\* how many messages per queue the forwarding task may lag behind when the
\* reader starts its next read, in this model
MaxBacklog == 1
\* how many frames the client sends in a session, and how many keys are
\* typed on stdin, in this model
MaxMsgs == 2
MaxKeys == 1

Stream == StreamTable[variant][scn]
ReadSoFar == SubSeq(Stream, 1, pos)

ChunkOfShort(stream, at, n) == SubSeq(stream, at + 1, at + n - 1)

\* buf[..n].to_vec() / &buf[..n]: the n bytes the read returned
ChunkOf(stream, at, n) == SubSeq(stream, at + 1, at + n)

RecvNewest(q) == q[Len(q)]

\* rx.recv() on a queue that holds a message: the oldest one
Recv(q) == Head(q)

\* A history of log messages in which consecutive Output messages are merged
NormAppend(h, ev) ==
    IF ev.type = "logOutput" /\ h # <<>> /\ h[Len(h)].type = "logOutput"
    THEN [h EXCEPT ![Len(h)].data = h[Len(h)].data \o ev.data]
    ELSE Append(h, ev)

RECURSIVE NormAppendAll(_, _)
NormAppendAll(h, evs) ==
    IF evs = <<>> THEN h ELSE NormAppendAll(NormAppend(h, Head(evs)), Tail(evs))

HasRoomAlways(q) == TRUE

\* blocking_send returns at once iff the bounded channel has a free slot
HasRoom(q) == Len(q) < QueueCap

\* what one pass of the reader's Ok(n) arm sends, in the order it sends it:
\* the raw chunk, the log messages, and the panic that ends the pass if one
RawItem(data) == [q |-> "raw", msg |-> data]
LogItem(ev) == [q |-> "log", msg |-> ev]
PanicItem == [q |-> "panic", msg |-> <<>>]

SendItems(data, r) ==
    <<RawItem(data)>> \o [i \in 1..Len(r.evs) |-> LogItem(r.evs[i])]
        \o (IF r.panic THEN <<PanicItem>> ELSE <<>>)

\* the sends of a pass, done in order until one finds its queue full: there
\* the thread waits, holding the rest
RECURSIVE SendAll(_, _)
SendAll(s, items) ==
    IF items = <<>> THEN s
    ELSE LET h == Head(items)
         IN  IF h.q = "panic" THEN [s EXCEPT !.rpc = "panicked"]
             ELSE IF h.q = "raw"
             THEN IF HasRoom(s.rawQ)
                  THEN SendAll([s EXCEPT !.rawQ = Append(@, h.msg)], Tail(items))
                  ELSE [s EXCEPT !.pend = items, !.rpc = "send"]
             ELSE IF HasRoom(s.logQ)
                  THEN SendAll([s EXCEPT !.logQ = Append(@, h.msg)], Tail(items))
                  ELSE [s EXCEPT !.pend = items, !.rpc = "send"]

\* "source static/shell-integration.zsh\n"
InitCmd ==
    <<115, 111, 117, 114, 99, 101, 32, 115, 116, 97, 116, 105,
       99, 47, 115, 104, 101, 108, 108, 45, 105, 110, 116, 101,
       103, 114, 97, 116, 105, 111, 110, 46, 122, 115, 104, 10>>

\* the frames a client may send: the three ClientMsg variants as JSON text,
\* text that is no ClientMsg, and a frame that is no text (binary, ping, pong)
Frame(type, data, cols, rows) == [type |-> type, data |-> data, cols |-> cols, rows |-> rows]
InputData == {TxtA, Ls}
Frames ==
    { Frame("input", d, 0, 0) : d \in InputData }
      \cup { Frame("run", d, 0, 0) : d \in InputData }
      \cup { Frame("resize", <<>>, 120, 40), Frame("badtext", TxtA, 0, 0),
             Frame("binary", TxtA, 0, 0) }

PayloadNoNewline(m) == IF m.type \in {"input", "run"} THEN m.data ELSE <<>>

\* what the inbound loop writes to the PTY for a frame: w.write_all(data),
\* w.write_all(format!("{}\n", data)), or nothing
Payload(m) ==
    IF m.type = "input" THEN m.data
    ELSE IF m.type = "run" THEN m.data \o <<10>>
    ELSE <<>>

\* the state after construction, whatever program, shell output and
\* surroundings
Boot ==
    /\ pos = 0
    /\ rpc = "read" /\ parsing_str = <<>> /\ is_capturing = FALSE /\ logEmit = <<>>
    /\ pend = <<>>
    /\ rawQ = <<>> /\ logQ = <<>> /\ rxOpen = TRUE
    /\ spc = "run" /\ hpc = "loop" /\ connOpen = TRUE
    /\ wsBin = <<>> /\ wsText = <<>>
    /\ recvd = <<>> /\ pty_size = [cols |-> 80, rows |-> 24]
    /\ ptyIn = IF variant = "remote" /\ is_zsh THEN InitCmd ELSE <<>>
    /\ lpc = "read" /\ parser = [state |-> "ground", osc_raw |-> <<>>]
    /\ current_session = NoSession /\ log_file = <<>> /\ stdout = <<>>
    /\ raw_mode = (variant = "local")
    /\ ptyLock = "free"

\* either program, a bash shell, reads of every size, a client that only
\* listens; the local program on either of its backends
ChunkedInit ==
    /\ variant \in Variants
    /\ scn \in ChunkedScenarios
    /\ env = [grain |-> LocalBuf, prompt |-> TRUE, msgs |-> 0]
    /\ is_zsh = FALSE
    /\ use_winpty \in (IF variant = "local" THEN BOOLEAN ELSE {FALSE})

\* remote-shell with a client that sends frames, under bash or zsh
InboundInit ==
    /\ variant = "remote" /\ scn = "quiet"
    /\ env = [grain |-> RemoteBuf, prompt |-> TRUE, msgs |-> MaxMsgs]
    /\ is_zsh \in BOOLEAN
    /\ use_winpty = FALSE

\* remote-shell with a PTY that hands over one byte per read and a
\* forwarding task that may fall behind as far as the queues allow
FloodInit ==
    /\ variant = "remote" /\ scn = "flood"
    /\ env = [grain |-> 1, prompt |-> FALSE, msgs |-> 0]
    /\ is_zsh = FALSE
    /\ use_winpty = FALSE

Init == (ChunkedInit \/ InboundInit \/ FloodInit) /\ Boot

\* ------------------------------------------------- remote-shell: actions
\* reader.read returns n > 0 bytes: the chunk is sent on tx_output (the
\* thread waits while the queue is full and breaks when the receiver is
\* gone), then appended lossily to the parse buffer and the inner loop runs,
\* sending its log messages on tx_log (errors ignored).
ReaderRead ==
    /\ variant = "remote" /\ rpc = "read"
    /\ env.prompt => /\ Len(rawQ) < Min(QueueCap, MaxBacklog)
                     /\ Len(logQ) < Min(QueueCap, MaxBacklog)
    /\ \E n \in 1..Min(Min(Len(Stream) - pos, RemoteBuf), env.grain) :
         LET data == ChunkOf(Stream, pos, n)
             r == ParseLoop(parsing_str \o Utf8Lossy(data), is_capturing)
             s == SendAll([rawQ |-> rawQ, logQ |-> logQ, pend |-> <<>>, rpc |-> "read"],
                          SendItems(data, r))
         IN  /\ pos' = pos + n
             /\ IF ~rxOpen
                THEN /\ rpc' = "exited"
                     /\ UNCHANGED <<parsing_str, is_capturing, logEmit, rawQ, logQ, pend>>
                ELSE /\ parsing_str' = r.ps
                     /\ is_capturing' = r.capturing
                     /\ logEmit' = NormAppendAll(logEmit, r.evs)
                     /\ rawQ' = s.rawQ
                     /\ logQ' = s.logQ
                     /\ pend' = s.pend
                     /\ rpc' = s.rpc
    /\ UNCHANGED <<variant, scn, env, rxOpen, spc, hpc, connOpen, wsBin, wsText>>
    /\ UNCHANGED inboundVars
    /\ UNCHANGED localVars

\* a blocking_send that waited returns: Ok once its queue has a free slot,
\* and the pass goes on; Err once the receiver is gone, which ends the thread
\* if it was the raw chunk's send and is ignored if it was a log message's
ReaderSend ==
    /\ variant = "remote" /\ rpc = "send"
    /\ IF rxOpen
       THEN /\ HasRoom(IF Head(pend).q = "raw" THEN rawQ ELSE logQ)
            /\ LET s == SendAll([rawQ |-> rawQ, logQ |-> logQ, pend |-> <<>>,
                                 rpc |-> "read"], pend)
               IN  /\ rawQ' = s.rawQ
                   /\ logQ' = s.logQ
                   /\ pend' = s.pend
                   /\ rpc' = s.rpc
       ELSE /\ rpc' = IF Head(pend).q = "raw" THEN "exited"
                      ELSE IF pend[Len(pend)].q = "panic" THEN "panicked"
                      ELSE "read"
            /\ pend' = <<>>
            /\ UNCHANGED <<rawQ, logQ>>
    /\ UNCHANGED <<variant, scn, env, pos, parsing_str, is_capturing, logEmit,
                   rxOpen, spc, hpc, connOpen, wsBin, wsText>>
    /\ UNCHANGED inboundVars
    /\ UNCHANGED localVars

\* reader.read returns Ok(0) or Err: the thread leaves its loop
ReaderEOF ==
    /\ variant = "remote" /\ rpc = "read" /\ pos = Len(Stream)
    /\ rpc' = "exited"
    /\ UNCHANGED <<variant, scn, env, pos, parsing_str, is_capturing, logEmit, pend,
                   rawQ, logQ, rxOpen, spc, hpc, connOpen, wsBin, wsText>>
    /\ UNCHANGED inboundVars
    /\ UNCHANGED localVars

\* send_task, branch rx_output.recv(): one binary frame; a failed send breaks
SendBinary ==
    /\ variant = "remote" /\ spc = "run" /\ rawQ # <<>>
    /\ IF connOpen
       THEN /\ wsBin' = wsBin \o Recv(rawQ)
            /\ rawQ' = Tail(rawQ)
            /\ UNCHANGED <<logQ, rxOpen, spc>>
       ELSE /\ spc' = "done" /\ rxOpen' = FALSE
            /\ rawQ' = <<>> /\ logQ' = <<>>
            /\ UNCHANGED wsBin
    /\ UNCHANGED <<variant, scn, env, pos, rpc, parsing_str, is_capturing,
                   logEmit, pend, hpc, connOpen, wsText>>
    /\ UNCHANGED inboundVars
    /\ UNCHANGED localVars

\* send_task, branch rx_log.recv(): one text frame holding the message's JSON
SendText ==
    /\ variant = "remote" /\ spc = "run" /\ logQ # <<>>
    /\ IF connOpen
       THEN /\ wsText' = NormAppend(wsText, Recv(logQ))
            /\ logQ' = Tail(logQ)
            /\ UNCHANGED <<rawQ, rxOpen, spc>>
       ELSE /\ spc' = "done" /\ rxOpen' = FALSE
            /\ rawQ' = <<>> /\ logQ' = <<>>
            /\ UNCHANGED wsText
    /\ UNCHANGED <<variant, scn, env, pos, rpc, parsing_str, is_capturing,
                   logEmit, pend, hpc, connOpen, wsBin>>
    /\ UNCHANGED inboundVars
    /\ UNCHANGED localVars

\* send_task, branch else: both channels are closed (the reader thread, which
\* owns the senders, is gone) and empty
SendTaskExit ==
    /\ variant = "remote" /\ spc = "run"
    /\ rpc \in {"exited", "panicked"} /\ rawQ = <<>> /\ logQ = <<>>
    /\ spc' = "done" /\ rxOpen' = FALSE
    /\ UNCHANGED <<variant, scn, env, pos, rpc, parsing_str, is_capturing,
                   logEmit, pend, rawQ, logQ, hpc, connOpen, wsBin, wsText>>
    /\ UNCHANGED inboundVars
    /\ UNCHANGED localVars

\* the inbound loop takes a text frame that decodes to ClientMsg::Input:
\* the data is written to the PTY and flushed under the writer lock
RecvInput ==
    /\ variant = "remote" /\ hpc = "loop" /\ connOpen
    /\ Len(recvd) < env.msgs
    /\ \E m \in { f \in Frames : f.type = "input" } :
         /\ recvd' = Append(recvd, m)
         /\ ptyIn' = ptyIn \o Payload(m)
    /\ UNCHANGED <<variant, scn, env, pos, rpc, parsing_str, is_capturing, logEmit, pend,
                   rawQ, logQ, rxOpen, spc, hpc, connOpen, wsBin, wsText, is_zsh, pty_size>>
    /\ UNCHANGED localVars

\* ... to ClientMsg::Run: the data and a newline are written and flushed
RecvRun ==
    /\ variant = "remote" /\ hpc = "loop" /\ connOpen
    /\ Len(recvd) < env.msgs
    /\ \E m \in { f \in Frames : f.type = "run" } :
         /\ recvd' = Append(recvd, m)
         /\ ptyIn' = ptyIn \o Payload(m)
    /\ UNCHANGED <<variant, scn, env, pos, rpc, parsing_str, is_capturing, logEmit, pend,
                   rawQ, logQ, rxOpen, spc, hpc, connOpen, wsBin, wsText, is_zsh, pty_size>>
    /\ UNCHANGED localVars

\* ... to ClientMsg::Resize: the master is resized under its lock
RecvResize ==
    /\ variant = "remote" /\ hpc = "loop" /\ connOpen
    /\ Len(recvd) < env.msgs
    /\ \E m \in { f \in Frames : f.type = "resize" } :
         /\ recvd' = Append(recvd, m)
         /\ pty_size' = [cols |-> m.cols, rows |-> m.rows]
    /\ UNCHANGED <<variant, scn, env, pos, ptyIn, rpc, parsing_str, is_capturing, logEmit,
                   pend, rawQ, logQ, rxOpen, spc, hpc, connOpen, wsBin, wsText, is_zsh>>
    /\ UNCHANGED localVars

\* a text frame that is no ClientMsg, or a frame that is neither text nor
\* Close: nothing is done
RecvOther ==
    /\ variant = "remote" /\ hpc = "loop" /\ connOpen
    /\ Len(recvd) < env.msgs
    /\ \E m \in { f \in Frames : f.type \in {"badtext", "binary"} } :
         recvd' = Append(recvd, m)
    /\ UNCHANGED <<variant, scn, env, pos, ptyIn, rpc, parsing_str, is_capturing, logEmit,
                   pend, rawQ, logQ, rxOpen, spc, hpc, connOpen, wsBin, wsText, is_zsh,
                   pty_size>>
    /\ UNCHANGED localVars

\* the client closes the websocket (Close frame, stream end or receive error)
ClientClose ==
    /\ variant = "remote" /\ connOpen /\ hpc = "loop"
    /\ connOpen' = FALSE
    /\ UNCHANGED <<variant, scn, env, pos, rpc, parsing_str, is_capturing,
                   logEmit, pend, rawQ, logQ, rxOpen, spc, hpc, wsBin, wsText>>
    /\ UNCHANGED inboundVars
    /\ UNCHANGED localVars

\* the inbound loop ends and send_task.abort() drops the task and its receivers
HandlerExit ==
    /\ variant = "remote" /\ ~connOpen /\ hpc = "loop"
    /\ hpc' = "returned"
    /\ IF spc = "run"
       THEN spc' = "aborted" /\ rxOpen' = FALSE /\ rawQ' = <<>> /\ logQ' = <<>>
       ELSE UNCHANGED <<spc, rxOpen, rawQ, logQ>>
    /\ UNCHANGED <<variant, scn, env, pos, rpc, parsing_str, is_capturing,
                   logEmit, pend, connOpen, wsBin, wsText>>
    /\ UNCHANGED inboundVars
    /\ UNCHANGED localVars

\* ------------------------------------------------- pty-bash-hook: actions
\* WinPtyReader::read takes the PTY's lock and waits in pty.read(true)
WinPtyReadEnter ==
    /\ variant = "local" /\ use_winpty /\ lpc = "read" /\ ptyLock = "free"
    /\ ptyLock' = "reader"
    /\ UNCHANGED <<variant, scn, env, pos, ptyIn, lpc, parser, current_session, log_file,
                   stdout, raw_mode, use_winpty>>
    /\ UNCHANGED remoteVars

\* reader.read returns n > 0 bytes: stdout, capture_output, parser
LocalRead ==
    /\ variant = "local" /\ lpc = "read"
    /\ use_winpty => ptyLock = "reader"
    /\ \E n \in 1..Min(Min(Len(Stream) - pos, LocalBuf), env.grain) :
         LET data == ChunkOf(Stream, pos, n)
             st == LocalChunk([parser |-> parser, session |-> current_session,
                               log |-> log_file], data)
         IN  /\ pos' = pos + n
             /\ stdout' = stdout \o data
             /\ parser' = st.parser
             /\ current_session' = st.session
             /\ log_file' = st.log
    /\ ptyLock' = IF use_winpty THEN "free" ELSE ptyLock
    /\ UNCHANGED <<variant, scn, env, ptyIn, lpc, raw_mode, use_winpty>>
    /\ UNCHANGED remoteVars

\* reader.read returns Ok(0) or Err: break, disable_raw_mode, "Session ended."
LocalEOF ==
    /\ variant = "local" /\ lpc = "read" /\ pos = Len(Stream)
    /\ use_winpty => ptyLock = "reader"
    /\ lpc' = "ended" /\ raw_mode' = FALSE
    /\ ptyLock' = IF use_winpty THEN "free" ELSE ptyLock
    /\ UNCHANGED <<variant, scn, env, pos, ptyIn, parser, current_session, log_file,
                   stdout, use_winpty>>
    /\ UNCHANGED remoteVars

\* pty.read(true) returns Err inside WinPtyReader::read: unwrap() panics in
\* the main thread, with the lock held
WinPtyReadPanic ==
    /\ variant = "local" /\ use_winpty /\ lpc = "read" /\ ptyLock = "reader"
    /\ lpc' = "panicked" /\ ptyLock' = "poisoned"
    /\ UNCHANGED <<variant, scn, env, pos, ptyIn, parser, current_session, log_file,
                   stdout, raw_mode, use_winpty>>
    /\ UNCHANGED remoteVars

\* the stdin thread's io::copy writes a typed key to the PTY; WinPtyWriter
\* takes the PTY's lock for the write
StdinRelay ==
    /\ variant = "local" /\ lpc = "read"
    /\ Len(ptyIn) < MaxKeys
    /\ use_winpty => ptyLock = "free"
    /\ ptyIn' = ptyIn \o TxtA
    /\ UNCHANGED <<variant, scn, env, pos, lpc, parser, current_session, log_file,
                   stdout, raw_mode, use_winpty, ptyLock>>
    /\ UNCHANGED remoteVars

Next ==
    \/ ReaderRead
    \/ ReaderSend
    \/ ReaderEOF
    \/ SendBinary
    \/ SendText
    \/ SendTaskExit
    \/ RecvInput
    \/ RecvRun
    \/ RecvResize
    \/ RecvOther
    \/ ClientClose
    \/ HandlerExit
    \/ WinPtyReadEnter
    \/ LocalRead
    \/ LocalEOF
    \/ WinPtyReadPanic
    \/ StdinRelay

Spec == Init /\ [][Next]_vars

\* The remote program alone, with the fairness of its forwarding task:
\* tokio::select! polls its ready branches in random order, so a branch that
\* stays ready is eventually taken.
RemoteInit == Init /\ variant = "remote" /\ scn \in {"plain", "stray", "long"}

RemoteNext ==
    \/ ReaderRead
    \/ ReaderEOF
    \/ SendBinary
    \/ SendText
    \/ SendTaskExit
    \/ ClientClose
    \/ HandlerExit

FairSpec ==
    RemoteInit /\ [][RemoteNext]_vars /\ WF_vars(SendBinary) /\ WF_vars(SendText)

\* The same with every step of the server fair: the runtime keeps polling
\* the forwarding task and the handler, and a blocking read returns once the
\* PTY holds bytes. When the shell exits and when the client closes are not
\* the server's to decide.
LiveInit == Init /\ variant = "remote" /\ scn = "plain"

LiveSpec ==
    /\ LiveInit /\ [][RemoteNext]_vars
    /\ WF_vars(ReaderRead) /\ WF_vars(SendBinary) /\ WF_vars(SendText)
    /\ WF_vars(SendTaskExit) /\ WF_vars(HandlerExit)

\* The flooded session alone
QueueInit == Init /\ scn = "flood"

QueueNext ==
    \/ ReaderRead
    \/ ReaderSend
    \/ ReaderEOF
    \/ SendBinary
    \/ SendText
    \/ SendTaskExit
    \/ ClientClose
    \/ HandlerExit

QueueSpec == QueueInit /\ [][QueueNext]_vars


\* ================================================================ claims
IsPrefix(p, s) == Len(p) <= Len(s) /\ SubSeq(s, 1, Len(p)) = p

\* the raw chunk and the log messages the reader is waiting to send
IsRawItem(x) == x.q = "raw"
IsLogItem(x) == x.q = "log"
ItemMsgs(items) == [i \in 1..Len(items) |-> items[i].msg]
PendRaw == Flatten(ItemMsgs(SelectSeq(pend, IsRawItem)))
PendLogs == ItemMsgs(SelectSeq(pend, IsLogItem))

\* every byte read so far went through the program's read loop
RemoteSettled == variant = "remote" /\ rpc = "read" /\ pos = Len(Stream)
LocalSettled == variant = "local" /\ pos = Len(Stream)

\* C1: the bytes handed to the raw pass-through channel are the bytes read
\* from the PTY, in order and unchanged: stdout holds exactly the bytes read
\* (local); the binary frames sent are a prefix of the bytes read and, while
\* the connection is open, frames sent plus chunks queued are exactly the
\* bytes read (remote).
C1_RawPassThrough ==
    /\ variant = "local" => stdout = ReadSoFar
    /\ variant = "remote" =>
         /\ IsPrefix(wsBin, ReadSoFar)
         /\ connOpen => wsBin \o Flatten(rawQ) \o PendRaw = ReadSoFar

\* a stream with markers and escape sequences went through whole while a
\* command was captured and ended
C1_Witness ==
    /\ variant = "remote" /\ scn = "colour" /\ connOpen
    /\ pos = Len(Stream) /\ wsBin = Stream
    /\ logEmit # <<>> /\ logEmit[Len(logEmit)].type = "logEnd"

\* C5: while the connection is open every queued raw chunk and log message
\* is sent exactly once and in its queue's order, and is eventually sent,
\* whichever queue the forwarding loop serves first.
AllDelivered == wsBin = ReadSoFar /\ wsText = logEmit

C6_Text ==
    [ plain   |-> TxtA, code137 |-> TxtA, stray |-> TxtA, pre |-> TxtA,
      long    |-> Letters \o SubSeq(Letters, 1, 12) ]

C6_Code == [ plain |-> 0, code137 |-> 137, stray |-> 0, pre |-> 0, long |-> 0 ]

C6_FlushBeforeEnd ==
    /\ (variant = "remote" /\ ~is_capturing) =>
         (logEmit = <<>> \/ logEmit[Len(logEmit)].type = "logEnd")
    /\ (RemoteSettled /\ scn \in DOMAIN C6_Text) =>
         logEmit = <<LogOutput(C6_Text[scn]), LogEnd(C6_Code[scn])>>
    /\ variant = "local" =>
         /\ \A i \in 1..Len(log_file) :
              /\ log_file[i].k = "ended" => (i > 1 /\ log_file[i - 1].k = "output")
              /\ log_file[i].k = "output" =>
                   (i < Len(log_file) /\ log_file[i + 1].k = "ended")
         /\ ~current_session.live => current_session.output = <<>>

\* a command whose text was flushed in part before its END arrived
C6_Witness ==
    /\ RemoteSettled /\ scn = "long" /\ ~is_capturing
    /\ Len(logEmit) = 2 /\ Len(logQ) = 1 /\ wsText # <<>>


\* C2: START with the command text, "file1\nfile2\n", END;0 gives Output
\* data "file1\nfile2\n", then one End with exit code 0, and the command text
\* "ls" is recorded, however the bytes are cut into reads.
C2_EndToEnd ==
    /\ (RemoteSettled /\ scn = "e2e") =>
         logEmit = <<LogOutput(Files), LogEnd(0)>>
    /\ (LocalSettled /\ scn = "e2e") =>
         log_file = <<LogStarted(Ls), LogOutputSection(Files), LogEnded(Zero)>>

\* C3: an END processed while capturing ends the capture and gives exactly
\* one End whose exit code is the number in the marker, and 0 when the
\* parameter is missing or is not a number.
C3_Remote == [ plain |-> 0, code137 |-> 137, nocode |-> 0, abc |-> 0 ]
C3_Local == [ e2e |-> Zero, cmd137 |-> Code137, cmdnocode |-> Zero, cmdabc |-> Zero ]

C3_ExitCode ==
    /\ (RemoteSettled /\ scn \in DOMAIN C3_Remote) =>
         /\ ~is_capturing
         /\ logEmit = <<LogOutput(TxtA), LogEnd(C3_Remote[scn])>>
    /\ (LocalSettled /\ scn \in DOMAIN C3_Local) =>
         /\ ~current_session.live
         /\ Len(log_file) = 3
         /\ log_file[3] = LogEnded(C3_Local[scn])


\* the byte offsets <<a, b>> between which each marker of the stream lies
MarkerSpans ==
    { <<SegEnd[variant][scn][i - 1], SegEnd[variant][scn][i]>> :
        i \in { j \in 1..Len(Scenarios[scn]) : Scenarios[scn][j].k \in {"start", "end"} } }

\* C4: a marker cut at any offset between two consecutive reads is recognized
\* once, with the same capture state and the same log messages as when one
\* read returns the same bytes whole, whatever the first read holds before
\* the marker. Whenever a read ends inside a marker, the state it leaves,
\* given the rest of the marker in a second read, ends where a single read of
\* the same bytes would have ended.
C4_RemoteStep ==
    \A sp \in MarkerSpans :
        LET one == ParseLoop(parsing_str \o Utf8Lossy(SubSeq(Stream, pos + 1, sp[2])),
                             is_capturing)
            two == ParseLoop(parsing_str' \o Utf8Lossy(SubSeq(Stream, pos' + 1, sp[2])),
                             is_capturing')
        IN  (/\ variant = "remote" /\ rpc = "read" /\ rxOpen
             /\ pos <= sp[1] /\ sp[1] < pos' /\ pos' < sp[2]
             /\ ~one.panic)
            => /\ rpc' = "read" /\ ~two.panic
               /\ two.capturing = one.capturing
               /\ NormAppendAll(logEmit', two.evs) = NormAppendAll(logEmit, one.evs)

C4_LocalStep ==
    \A sp \in MarkerSpans :
        LET st == [parser |-> parser, session |-> current_session, log |-> log_file]
            st1 == [parser |-> parser', session |-> current_session', log |-> log_file']
            one == LocalChunk(st, SubSeq(Stream, pos + 1, sp[2]))
            two == LocalChunk(st1, SubSeq(Stream, pos' + 1, sp[2]))
        IN  (/\ variant = "local" /\ lpc = "read"
             /\ pos <= sp[1] /\ sp[1] < pos' /\ pos' < sp[2])
            => two = one

C4_SplitMarker == [][C4_RemoteStep /\ C4_LocalStep]_vars

\* C7: an END read while no capture is active gives no message and writes
\* nothing, leaves the capture idle, and does not change what follows it:
\* a read that ends with the stray END leaves the program where the same
\* read without the END would have left it, as far as the rest of the stream
\* can tell, and the command after it gives its Output and its End.
C7_Remote == { "stray", "straymb" }
C7_Local == { "cmdstray" }

C7_Idle ==
    /\ (variant = "remote" /\ scn \in C7_Remote /\ pos <= SegEnd[variant][scn][2]) =>
         (logEmit = <<>> /\ ~is_capturing)
    /\ (variant = "local" /\ scn \in C7_Local /\ pos <= SegEnd[variant][scn][2]) =>
         (log_file = <<>> /\ ~current_session.live)
    /\ (RemoteSettled /\ scn \in C7_Remote) =>
         logEmit = <<LogOutput(TxtA), LogEnd(0)>>
    /\ (LocalSettled /\ scn \in C7_Local) =>
         /\ Len(log_file) = 3 /\ ~current_session.live
         /\ log_file[1] = LogStarted(Ls) /\ log_file[3] = LogEnded(Zero)

C7_RemoteStep ==
    LET a == SegEnd[variant][scn][1]
        b == SegEnd[variant][scn][2]
        rest == Utf8Lossy(SubSeq(Stream, b + 1, Len(Stream)))
        without == ParseLoop(parsing_str \o Utf8Lossy(SubSeq(Stream, pos + 1, a)),
                             is_capturing)
        after == ParseLoop(parsing_str' \o rest, is_capturing')
        afterWithout == ParseLoop(without.ps \o rest, without.capturing)
    IN  (/\ variant = "remote" /\ scn \in C7_Remote /\ rpc = "read" /\ rxOpen
         /\ pos <= a /\ pos' = b
         /\ ~without.panic)
        => /\ rpc' = "read"
           /\ logEmit' = logEmit /\ ~is_capturing'
           /\ after.evs = afterWithout.evs
           /\ after.capturing = afterWithout.capturing
           /\ after.panic = afterWithout.panic

C7_LocalStep ==
    LET a == SegEnd[variant][scn][1]
        b == SegEnd[variant][scn][2]
        rest == SubSeq(Stream, b + 1, Len(Stream))
        st == [parser |-> parser, session |-> current_session, log |-> log_file]
        st1 == [parser |-> parser', session |-> current_session', log |-> log_file']
        without == LocalChunk(st, SubSeq(Stream, pos + 1, a))
    IN  (/\ variant = "local" /\ scn \in C7_Local /\ lpc = "read"
         /\ pos <= a /\ pos' = b)
        => /\ st1 = without
           /\ LocalChunk(st1, rest) = LocalChunk(without, rest)

C7_StrayEnd == []C7_Idle /\ [][C7_RemoteStep /\ C7_LocalStep]_vars

\* C8: a START read while a capture is active resets it: the text gathered
\* since the first START is dropped, and the next END reports only the text
\* after the second START, with one End for the two STARTs.
C8_SecondStart ==
    /\ (RemoteSettled /\ scn = "double") =>
         logEmit = <<LogOutput(TxtB), LogEnd(0)>>
    /\ (LocalSettled /\ scn = "cmddouble") =>
         /\ Cardinality({ i \in 1..Len(log_file) : log_file[i].k = "ended" }) = 1
         /\ \A i \in 1..Len(log_file) :
              log_file[i].k = "output" =>
                \A j \in 1..Len(log_file[i].text) : log_file[i].text[j] # TxtA[1]

\* C9: a START without a third parameter starts a capture with an empty
\* command text: once it is read the capture is active, and the END after it
\* gives the captured output and an End.
C9_BareStart ==
    /\ (variant = "remote" /\ scn = "plain" /\ rpc = "read"
        /\ pos >= SegEnd[variant][scn][1] /\ pos <= SegEnd[variant][scn][2]) =>
         is_capturing
    /\ (RemoteSettled /\ scn = "plain") =>
         logEmit = <<LogOutput(TxtA), LogEnd(0)>>
    /\ (variant = "local" /\ scn = "plain"
        /\ pos >= SegEnd[variant][scn][1] /\ pos <= SegEnd[variant][scn][2]) =>
         (current_session.live /\ current_session.command = <<>>)
    /\ (LocalSettled /\ scn = "plain") =>
         \E i \in 1..Len(log_file) : log_file[i].k = "ended"

\* C10: whatever bytes the PTY gives, invalid UTF-8 and multi-byte characters
\* included, and wherever the parse buffer is cut (the 20-byte tail, the
\* 30-byte reserve), the reader thread does not panic.
C10_NoPanic == rpc # "panicked"


\* C11: once the PTY read has returned EOF or an error and the reader thread
\* is gone, the forwarding task ends, the inbound loop ends and the
\* connection is closed, whether or not the client closes it.
C11_EofStopsAll ==
    (variant = "remote" /\ rpc = "exited")
        ~> (spc # "run" /\ hpc = "returned" /\ ~connOpen)

\* C12: once the client has closed the connection the inbound loop ends, the
\* forwarding task is aborted or done, and the reader thread leaves its loop,
\* also when the shell writes nothing more.
C12_CloseStopsAll ==
    (variant = "remote" /\ ~connOpen)
        ~> (hpc = "returned" /\ spc # "run" /\ rpc \in {"exited", "panicked"})


\* C13: each queue holds at most 32 messages; a reader that waits in a send
\* issues no PTY read; and while the receivers are alive nothing is dropped:
\* what was sent on the connection, what is queued and what the reader is
\* waiting to send make up exactly the bytes read and the messages emitted.
C13_Bounded ==
    variant = "remote" =>
        /\ Len(rawQ) <= QueueCap /\ Len(logQ) <= QueueCap
        /\ pend # <<>> <=> rpc = "send"
        /\ rxOpen => /\ wsBin \o Flatten(rawQ) \o PendRaw = ReadSoFar
                     /\ NormAppendAll(wsText, logQ \o PendLogs) = logEmit

C13_Backpressure == []C13_Bounded /\ [][rpc = "send" => pos' = pos]_vars

\* both queues are full and the reader waits in a send
C13_Witness ==
    /\ variant = "remote" /\ rxOpen /\ connOpen
    /\ Len(rawQ) = QueueCap /\ Len(logQ) = QueueCap /\ rpc = "send"

\* what the claim says a frame adds to the PTY's input
Stated(m) ==
    IF m.type = "input" THEN m.data
    ELSE IF m.type = "run" THEN m.data \o <<10>>
    ELSE <<>>
StatedAll == Flatten([i \in 1..Len(recvd) |-> Stated(recvd[i])])

\* C14: in the remote variant the bytes written to the PTY are, after the
\* line that loads the shell integration when the shell is zsh, exactly the
\* payloads of the frames taken so far in arrival order (data for Input,
\* data and one newline for Run, nothing for Resize, undecodable text and
\* non-text frames), and a frame that writes nothing leaves them as they are
C14_AfterInit ==
    variant = "remote" => ptyIn = (IF is_zsh THEN InitCmd ELSE <<>>) \o StatedAll
C14_Writes ==
    /\ []C14_AfterInit
    /\ [][(variant = "remote" /\ recvd' # recvd) =>
            /\ ptyIn' = ptyIn \o Stated(RecvNewest(recvd'))
            /\ RecvNewest(recvd').type \notin {"input", "run"} => ptyIn' = ptyIn]_vars

\* a zsh session that took a Run frame and then an Input frame
C14_Witness ==
    /\ variant = "remote" /\ is_zsh /\ Len(recvd) = 2
    /\ recvd[1].type = "run" /\ recvd[2].type = "input"
    /\ ptyIn = InitCmd \o Ls \o <<10>> \o TxtA

\* C14 as stated: the bytes written to the PTY are exactly the payloads
C14_ExactlyPayloads == variant = "remote" => ptyIn = StatedAll

\* C15: in the local variant, whenever the session has ended after raw mode
\* was enabled, raw mode has been disabled
C15_RawModeRestored == (variant = "local" /\ lpc # "read") => ~raw_mode

\* a read that returns bytes of a marker of kind k
Touches(k) ==
    \E i \in 1..Len(Scenarios[scn]) :
        /\ Scenarios[scn][i].k = k
        /\ pos < SegEnd[variant][scn][i] /\ SegEnd[variant][scn][i - 1] < pos'

IsEndMsg(ev) == ev.type = "logEnd"
IsEndedBlock(b) == b.k = "ended"

\* C16: the capture state goes from idle to capturing only in a read that
\* returns bytes of a START marker and from capturing to idle only in one
\* that returns bytes of an END marker; a read of plain bytes, CSI
\* sequences, OSC sequences of another channel, unknown sub-events and PWD
\* markers alone leaves it as it was and adds no End event
C16_RemoteStep ==
    variant = "remote" =>
        /\ (~is_capturing /\ is_capturing') => Touches("start")
        /\ (is_capturing /\ ~is_capturing') => Touches("end")
        /\ Len(SelectSeq(logEmit', IsEndMsg)) > Len(SelectSeq(logEmit, IsEndMsg))
              => Touches("end")
C16_LocalStep ==
    variant = "local" =>
        /\ (~current_session.live /\ current_session'.live) => Touches("start")
        /\ (current_session.live /\ ~current_session'.live) => Touches("end")
        /\ Len(SelectSeq(log_file', IsEndedBlock)) > Len(SelectSeq(log_file, IsEndedBlock))
              => Touches("end")
C16_OnlyMarkers == [][C16_RemoteStep /\ C16_LocalStep]_vars

\* both programs have gone through the noise between START and END, each
\* having reported one End, and are idle again
C16_Witness ==
    /\ scn \in {"noise", "cmdnoise"} /\ pos = Len(Stream)
    /\ \/ /\ variant = "remote" /\ scn = "noise" /\ ~is_capturing
          /\ Len(SelectSeq(logEmit, IsEndMsg)) = 1
       \/ /\ variant = "local" /\ scn = "cmdnoise" /\ ~current_session.live
          /\ Len(SelectSeq(log_file, IsEndedBlock)) = 1

IsOutputMsg(ev) == ev.type = "logOutput"
IsOutputBlock(b) == b.k = "output"
\* the text captured so far: the data of the Output messages, and the
\* Output sections of the log file
Captured ==
    IF variant = "remote"
    THEN LET out == SelectSeq(logEmit, IsOutputMsg)
         IN  Flatten([i \in 1..Len(out) |-> out[i].data])
    ELSE LET out == SelectSeq(log_file, IsOutputBlock)
         IN  Flatten([i \in 1..Len(out) |-> out[i].text])

\* the clean text of the one command of a session, for the sessions whose
\* START each program recognizes
CleanText ==
    [ remote |-> [plain |-> TxtA, crlf |-> <<97, 10, 9, 98>>, colour |-> Letters,
                  noise |-> TxtA],
      local  |-> [e2e |-> Files, cmdlong |-> Letters \o SubSeq(Letters, 1, 12),
                  cmdnoise |-> TxtA] ]

\* C17: the captured text holds no carriage return and no byte of an escape
\* sequence, and once the command has ended it is the printable bytes,
\* newlines and tabs the shell wrote between START and END, however the
\* reads cut the stream
C17_NoControl == \A i \in 1..Len(Captured) : Captured[i] \notin {13, ESC, BEL}
C17_Complete ==
    (/\ scn \in DOMAIN CleanText[variant]
     /\ IF variant = "remote" THEN RemoteSettled ELSE LocalSettled)
        => Captured = CleanText[variant][scn]
C17_CleanCapture == C17_NoControl /\ C17_Complete

\* the sessions START, text, END whose START each program recognizes
PlainSessions == [remote |-> {"plain", "long"}, local |-> {"e2e", "cmdlong"}]

\* C18: while capture is active, once a read has been processed every byte
\* of the command's output read so far has been emitted in an Output event
C18_FlushedPerChunk ==
    (/\ scn \in PlainSessions[variant]
     /\ IF variant = "remote" THEN rpc = "read" /\ is_capturing
                              ELSE lpc = "read" /\ current_session.live
     /\ SegEnd[variant][scn][1] <= pos /\ pos <= SegEnd[variant][scn][2])
        => Captured = SubSeq(Stream, SegEnd[variant][scn][1] + 1, pos)

\* C19: what is kept from one read to the next is bounded whatever the
\* length of the stream: the parse buffer holds at most 20 bytes when idle
\* and at most 30 when capturing once a chunk has been processed (remote),
\* and the accumulation of a command stays within the same constant (local)
C19_RemoteBound ==
    (variant = "remote" /\ rpc = "read")
        => Len(parsing_str) <= (IF is_capturing THEN Reserve ELSE TailKeep)
C19_LocalBound == variant = "local" => Len(current_session.output) <= Reserve
C19_Bounded == C19_RemoteBound /\ C19_LocalBound

\* C20: the read loop never holds the lock that guards the PTY write path,
\* so whenever the stdin relay has a key to write while the loop waits in
\* its read, the write can proceed
C20_ReaderLockFree ==
    /\ ptyLock # "reader"
    /\ (variant = "local" /\ lpc = "read" /\ Len(ptyIn) < MaxKeys) => ENABLED StdinRelay

\* C21: no Output message with empty data is ever emitted, and when the
\* reader is back at its read, running its flush again with no new byte
\* emits nothing and leaves the parse buffer and the capture state as they are
C21_NoEmptyOutput ==
    variant = "remote" =>
        /\ \A i \in 1..Len(logQ) : IsOutputMsg(logQ[i]) => logQ[i].data # <<>>
        /\ \A i \in 1..Len(PendLogs) : IsOutputMsg(PendLogs[i]) => PendLogs[i].data # <<>>
        /\ \A i \in 1..Len(logEmit) : IsOutputMsg(logEmit[i]) => logEmit[i].data # <<>>
C21_SecondFlush ==
    (variant = "remote" /\ rpc = "read") =>
        LET again == ParseLoop(parsing_str, is_capturing)
        IN  /\ again.evs = <<>> /\ ~again.panic
            /\ again.ps = parsing_str /\ again.capturing = is_capturing
C21_EmptyFinalFlush ==
    /\ variant = "remote" /\ scn = "onlycsi" /\ RemoteSettled
    /\ logEmit = <<LogEnd(0)>>

IsBanner(b) == b.k \in {"started", "output", "ended"}
\* the log file without its [PWD] lines
Banners == SelectSeq(log_file, IsBanner)

\* C22: the local log file is a sequence of blocks, each a start banner,
\* then an output section, then an end banner: a start banner is the last
\* thing written or is followed by its output section, an output section
\* stands between a start banner and an end banner, and an end banner
\* follows an output section
C22_LogBlocks ==
    variant = "local" =>
        \A i \in 1..Len(Banners) :
            /\ Banners[i].k = "started" =>
                  i = Len(Banners) \/ Banners[i + 1].k = "output"
            /\ Banners[i].k = "output" =>
                  /\ i > 1 /\ Banners[i - 1].k = "started"
                  /\ i < Len(Banners) /\ Banners[i + 1].k = "ended"
            /\ Banners[i].k = "ended" => i > 1 /\ Banners[i - 1].k = "output"

\* what each program reports when one read returns the whole stream
WholeRemote == ParseLoop(Utf8Lossy(Stream), FALSE)
WholeLocal ==
    LocalChunk([parser |-> [state |-> "ground", osc_raw |-> <<>>],
                session |-> NoSession, log |-> <<>>], Stream)

\* C23: once the whole stream has been read, the End events and, for each
\* command, the concatenation of its Output data (remote) or its logged
\* output section (local) are those of the run in which one read returned
\* the whole stream, however the reads cut it
C23_ChunkingIndependent ==
    /\ (RemoteSettled /\ ~WholeRemote.panic) =>
          logEmit = NormAppendAll(<<>>, WholeRemote.evs)
    /\ LocalSettled => log_file = WholeLocal.log

====
